---------------------------- MODULE Spec2Model ----------------------------
(***************************************************************************)
(* Model of the execution-and-orchestration engine of the autonomous IT    *)
(* support agent: the plan validator (agents.py, ValidatorAgent), the      *)
(* remediation executor (agents.py, ExecutorAgent), the orchestrator       *)
(* (orchestrator.py, SupportCrew; app.py, approve_execution) and the       *)
(* command executor (core/command.py, core/security.py).                   *)
(*                                                                         *)
(* Python strings that the code inspects character by character (commands, *)
(* step texts) are sequences of one-character strings.  Strings that the   *)
(* code only compares or looks up (server names, service names, field      *)
(* names, severities) are TLA+ strings.                                    *)
(***************************************************************************)
EXTENDS Integers, Sequences, FiniteSets, TLC

(***************************************************************************)
(* Bounds of the model.                                                    *)
(***************************************************************************)
\* longest step list of a plan given to the validator
MaxSteps == 2
\* number of requests (handle_issue / approve_execution) served in one run
MaxCalls == 2
\* number of tokens a command given to run_command_async is built from
MaxTokens == 2

\* Python's None, where a string is expected and where a dictionary is expected
None == "None"
Nil == [nil |-> TRUE]

(***************************************************************************)
(* Strings as character sequences.                                         *)
(***************************************************************************)
\* str.lower() on the characters the model uses
LowerChar(c) ==
    CASE c = "S" -> "s"
      [] c = "T" -> "t"
      [] c = "O" -> "o"
      [] c = "P" -> "p"
      [] OTHER -> c

Lower(s) == [i \in 1..Len(s) |-> LowerChar(s[i])]

\* Python's  t in s  on strings: t occurs in s as a contiguous substring
Contains(s, t) ==
    \E i \in 1..(Len(s) - Len(t) + 1) : SubSeq(s, i, i + Len(t) - 1) = t

RECURSIVE Concat(_)
Concat(ss) == IF ss = <<>> THEN <<>> ELSE Head(ss) \o Concat(Tail(ss))

(***************************************************************************)
(* core/security.py                                                        *)
(***************************************************************************)
\* the character class of the regular expression of sanitize_input: semicolon,
\* backquote (written "BQ" here), dollar, greater-than, less-than
StripChars == {";", "BQ", "$", ">", "<"}

sanitize_input_dropfirst(s) ==
    IF \E i \in 1..Len(s) : s[i] \in StripChars
    THEN LET i == CHOOSE k \in 1..Len(s) :
                      /\ s[k] \in StripChars
                      /\ \A h \in 1..(k - 1) : s[h] \notin StripChars
         IN SubSeq(s, 1, i - 1) \o SubSeq(s, i + 1, Len(s))
    ELSE s

sanitize_input_stripsPipe(s) == SelectSeq(s, LAMBDA c : c \notin StripChars \cup {"|"})

\* re.sub of that class by the empty string: every occurrence is deleted, the
\* rest is kept in order
sanitize_input(s) == SelectSeq(s, LAMBDA c : c \notin StripChars)

\* DEFAULT_CMD_CFG['blacklist']
BL_rm_rf == <<"r", "m", " ", "-", "r", "f">>
BL_shutdown == <<"s", "h", "u", "t", "d", "o", "w", "n">>
BL_reboot == <<"r", "e", "b", "o", "o", "t">>
BL_forkbomb == <<":", "(", ")", "{", " ", ":", "|", ":", "&", " ", "}", ";", ":">>
BL_dd == <<"d", "d", " ", "i", "f", "=">>
BL_mkfs == <<"m", "k", "f", "s">>

BLOCKED_COMMANDS == {BL_rm_rf, BL_shutdown, BL_reboot, BL_forkbomb, BL_dd, BL_mkfs}

\* the blacklist test of the disabled body of is_command_safe (lines 113-121)
Blacklisted(cmd) == \E b \in BLOCKED_COMMANDS : Contains(cmd, b)

\* is_command_safe as it runs: it returns True before any check
is_command_safe(cmd) == TRUE


(***************************************************************************)
(* The server registry (agents.py, infra_config; core/command.py, INFRA).  *)
(* Both are loaded once from infra_config.json and never written.  The     *)
(* file is deployment data; the model registers two of the hosts that      *)
(* core/command.py names.                                                  *)
(***************************************************************************)
infra_config ==
    [web01 |-> [ip |-> "192.168.56.11", os |-> "linux", user |-> "vagrant",
                services |-> <<"nginx", "tomcat">>],
     db01  |-> [ip |-> "192.168.56.15", os |-> "centos/stream9", user |-> "vagrant",
                services |-> <<"mysql">>]]

\* str.lower() on the service names the model uses
LowerName(n) == IF n = "MySQL" THEN "mysql" ELSE n

InSeq(x, seq) == \E i \in 1..Len(seq) : seq[i] = x

(***************************************************************************)
(* Commands and step texts of the plans the model draws.                   *)
(***************************************************************************)
CmdCheck == <<"l", "s">>
CmdInject == <<"l", "s", ";", "r", "m">>
CmdUndo == <<"u", "n", "d", "o">>

TxtCheck == <<"l", "s">>
TxtStop == <<"S", "T", "O", "P">>
TxtDrops == <<"d", "r", "o", "p", "s">>

\* a step of a plan: isdict is FALSE for a step that is not a JSON object (a
\* bare string), haskey is FALSE for an object without the "step" key; an empty
\* sequence or string is a missing or empty (falsy) field
MkStep(text, purpose, validation, rollback) ==
    [isdict |-> TRUE, haskey |-> TRUE, step |-> text, purpose |-> purpose,
     validation |-> validation, rollback |-> rollback]

StepSafe == MkStep(TxtCheck, "why", CmdCheck, <<>>)
StepRisky == MkStep(TxtStop, "why", CmdCheck, <<>>)
StepRiskyRb == MkStep(TxtStop, "why", CmdInject, CmdUndo)
StepBare == MkStep(TxtDrops, "", <<>>, <<>>)
StepNoPurpose == MkStep(TxtCheck, "", CmdCheck, CmdUndo)
StepNoKey == [MkStep(<<>>, "why", CmdCheck, <<>>) EXCEPT !.haskey = FALSE]
StepString == [MkStep(<<>>, "", <<>>, <<>>) EXCEPT !.isdict = FALSE, !.haskey = FALSE]

StepPool == {StepSafe, StepRisky, StepRiskyRb, StepBare, StepNoPurpose,
             StepNoKey, StepString}

SeqsUpTo(S, n) == UNION {[1..k -> S] : k \in 0..n}

(***************************************************************************)
(* agents.py, ValidatorAgent.validate_resolution.  The confidence is       *)
(* counted in tenths: the code's floats 1.0 + (-0.1 - ... ) compare with   *)
(* 0.7 exactly as the tenths compare with 7 for every number of penalties  *)
(* the model reaches (1.0 + -0.30000000000000004 is 0.7 in IEEE doubles).  *)
(***************************************************************************)
RequiredFields == <<"issue_summary", "severity", "service", "server",
                    "resolution_steps", "risks", "prerequisites">>

ValidSeverities == {"high", "medium", "low"}

risky_terms == {<<"r", "e", "m", "o", "v", "e">>, <<"d", "e", "l", "e", "t", "e">>,
                <<"d", "r", "o", "p">>, <<"t", "r", "u", "n", "c", "a", "t", "e">>,
                <<"r", "e", "s", "t", "a", "r", "t">>, <<"s", "t", "o", "p">>}

BaseConfidence == 10
SeverityPenalty == 2
StepPenalty == 1
RisksPenalty == 1
PrerequisitesPenalty == 1
ApprovalThreshold == 7

Verdict(approved, confidence, reason, risks, mods) ==
    [approved |-> approved, confidence |-> confidence, reason |-> reason,
     risks_identified |-> risks, suggested_modifications |-> mods]

\* lines 816-824
MissingFieldsVerdict(missing) ==
    Verdict(FALSE, 0, <<"Missing required fields", missing>>,
            <<<<"Incomplete resolution plan">>>>, <<<<"Add missing fields", missing>>>>)

UnknownServerVerdict_approves(server) ==
    Verdict(TRUE, BaseConfidence, <<"Resolution plan looks good">>, <<>>, <<>>)

\* lines 832-839
UnknownServerVerdict(server) ==
    Verdict(FALSE, 0, <<"Server not found in configuration", server>>,
            <<<<"Invalid target server">>>>, <<<<"Verify server name">>>>)

\* lines 843-850
BadServiceVerdict(service, server) ==
    Verdict(FALSE, 0, <<"Service not found on server", service, server>>,
            <<<<"Invalid service for target server">>>>,
            <<<<"Available services", infra_config[server].services>>>>)

NoStepsVerdict_scored(score) ==
    Verdict(FALSE, BaseConfidence + score, <<"No resolution steps provided">>,
            <<<<"Empty resolution plan">>>>, <<<<"Add detailed resolution steps">>>>)

\* lines 853-860; score is the running validation_score, which the return ignores
NoStepsVerdict(score) ==
    Verdict(FALSE, 0, <<"No resolution steps provided">>,
            <<<<"Empty resolution plan">>>>, <<<<"Add detailed resolution steps">>>>)

\* lines 910-918
ValidationErrorVerdict ==
    Verdict(FALSE, 0, <<"Validation error">>, <<<<"Validation failed">>>>,
            <<<<"Fix validation errors">>>>)

\* line 878: any(term in step["step"].lower() for term in risky_terms)
IsRiskyText(text) == \E term \in risky_terms : Contains(Lower(text), term)

\* lines 867-870: the fields among step, purpose, validation that are missing or empty
MissingStepFields(step) ==
    SelectSeq(<<"step", "purpose", "validation">>,
              LAMBDA f : \/ f = "step" /\ (~step.haskey \/ step.step = <<>>)
                         \/ f = "purpose" /\ step.purpose = ""
                         \/ f = "validation" /\ step.validation = <<>>)

\* lines 864-884 for one step: the issues found in it
StepIssues(step) ==
    (IF MissingStepFields(step) # <<>>
        THEN <<<<"Missing fields", MissingStepFields(step)>>>> ELSE <<>>)
    \o (IF step.validation = <<>> THEN <<<<"No validation command">>>> ELSE <<>>)
    \o (IF IsRiskyText(step.step) /\ step.rollback = <<>>
        THEN <<<<"Missing rollback procedure for risky operation">>>> ELSE <<>>)

StepRisk_flagsRollback(step, i) ==
    IF IsRiskyText(step.step) /\ step.rollback # <<>>
    THEN <<<<"Step", i, "involves risky operation without rollback">>>>
    ELSE <<>>

\* lines 877-880: the entry step i adds to risks_identified
StepRisk(step, i) ==
    IF IsRiskyText(step.step) /\ step.rollback = <<>>
    THEN <<<<"Step", i, "involves risky operation without rollback">>>>
    ELSE <<>>

\* lines 863-884: the loop over the steps from step i on.  acc carries
\* risks_identified, suggested_modifications and validation_score; raised is
\* set when the loop body raises: step.get on a step that is no object (line
\* 868) or step["step"] on an object without that key (line 878)
RECURSIVE CheckSteps(_, _, _)
CheckSteps(steps, i, acc) ==
    IF i > Len(steps) THEN acc
    ELSE LET step == steps[i] IN
         IF ~step.isdict \/ ~step.haskey THEN [acc EXCEPT !.raised = TRUE]
         ELSE CheckSteps(steps, i + 1,
                [risks |-> acc.risks \o StepRisk(step, i),
                 mods |-> IF StepIssues(step) # <<>>
                          THEN Append(acc.mods, <<"Step issues", i, StepIssues(step)>>)
                          ELSE acc.mods,
                 score |-> IF StepIssues(step) # <<>>
                           THEN acc.score - StepPenalty ELSE acc.score,
                 raised |-> FALSE])

Approved_ignoresRisks(confidence, risks) == confidence >= ApprovalThreshold

\* line 900
Approved(confidence, risks) == confidence >= ApprovalThreshold /\ risks = <<>>

Max(a, b) == IF a >= b THEN a ELSE b
Min(a, b) == IF a <= b THEN a ELSE b

\* lines 886-908
FinalVerdict(resolution, acc) ==
    LET mods1 == IF resolution.risks = <<>>
                 THEN Append(acc.mods, <<"Add potential risks assessment">>) ELSE acc.mods
        score1 == IF resolution.risks = <<>> THEN acc.score - RisksPenalty ELSE acc.score
        mods2 == IF resolution.prerequisites = <<>>
                 THEN Append(mods1, <<"Add prerequisites">>) ELSE mods1
        score2 == IF resolution.prerequisites = <<>>
                  THEN score1 - PrerequisitesPenalty ELSE score1
        final_confidence == Max(0, Min(BaseConfidence, BaseConfidence + score2))
        approved == Approved(final_confidence, acc.risks)
    IN Verdict(approved, final_confidence,
               IF approved THEN <<"Resolution plan looks good">>
                           ELSE <<"Issues found in resolution plan">>,
               acc.risks, mods2)

\* the required fields that are not keys of the plan, in the order of the list
MissingFields(resolution) ==
    SelectSeq(RequiredFields, LAMBDA f : f \notin resolution.present)

\* lines 803-918
validate_resolution(resolution) ==
    IF MissingFields(resolution) # <<>>
    THEN MissingFieldsVerdict(MissingFields(resolution))
    ELSE LET sevbad == resolution.severity \notin ValidSeverities
             acc0 == [risks |-> <<>>,
                      mods |-> IF sevbad
                               THEN <<<<"Use valid severity level: high, medium, or low">>>>
                               ELSE <<>>,
                      score |-> IF sevbad THEN 0 - SeverityPenalty ELSE 0,
                      raised |-> FALSE]
         IN IF resolution.server \notin DOMAIN infra_config
            THEN UnknownServerVerdict(resolution.server)
            ELSE IF ~InSeq(resolution.service, infra_config[resolution.server].services)
            THEN BadServiceVerdict(resolution.service, resolution.server)
            ELSE IF resolution.resolution_steps = <<>>
            THEN NoStepsVerdict(acc0.score)
            ELSE LET acc == CheckSteps(resolution.resolution_steps, 1, acc0)
                 IN IF acc.raised THEN ValidationErrorVerdict
                    ELSE FinalVerdict(resolution, acc)


(***************************************************************************)
(* Plans (the oracle's resolution dictionaries).  present is the set of    *)
(* keys of the dictionary; the value of an absent key is never read.       *)
(***************************************************************************)
AllFields == {RequiredFields[i] : i \in 1..Len(RequiredFields)}

PresentChoices == {AllFields, AllFields \ {"server"}, AllFields \ {"resolution_steps"},
                   AllFields \ {"severity", "risks"}}

ValidatorPlans ==
    [present : PresentChoices,
     severity : {"high", "critical"},
     service : {"nginx", "mysql", "MySQL", ""},
     server : {"web01", "db01", "ghost"},
     resolution_steps : SeqsUpTo(StepPool, MaxSteps),
     risks : {<<>>, <<"downtime">>},
     prerequisites : {<<>>, <<"backup">>}]

\* dict.get(key): None when the key is absent
Get(d, key) == IF key \in d.present THEN d[key] ELSE None

VARIABLES
    resolution_in,  \* the plan handed to validate_resolution
    verdict         \* what validate_resolution returned for it, Nil before the call

vvars == <<resolution_in, verdict>>

ValidatorInit ==
    /\ resolution_in \in ValidatorPlans
    /\ verdict = Nil

\* one call of ValidatorAgent.validate_resolution
Validate ==
    /\ verdict = Nil
    /\ verdict' = validate_resolution(resolution_in)
    /\ UNCHANGED resolution_in


(***************************************************************************)
(* agents.py, run_command_safely and ExecutorAgent; orchestrator.py,       *)
(* SupportCrew; app.py, approve_execution.                                 *)
(***************************************************************************)
\* how subprocess.run ends: exit code 0, a non-zero exit code, or TimeoutExpired
\* (another exception gives the result of a timeout with another output text)
Outcomes == {"ok", "nonzero", "timeout"}

\* lines 358-379: the (success, output, return_code) tuple; a non-zero exit
\* code is 1 in the model
run_command_safely(cmd, outcome) ==
    CASE outcome = "ok" -> [success |-> TRUE, output |-> "stdout", return_code |-> 0]
      [] outcome = "nonzero" ->
            [success |-> FALSE, output |-> "stdout stderr", return_code |-> 1]
      [] OTHER ->
            [success |-> FALSE, output |-> "Command timed out", return_code |-> -1]

\* the plans submitted to the orchestrator and posted for execution
MkPlan(present, service, server, steps) ==
    [present |-> present, severity |-> "high", service |-> service, server |-> server,
     resolution_steps |-> steps, risks |-> <<"downtime">>, prerequisites |-> <<"backup">>]

PlanGood == MkPlan(AllFields, "nginx", "web01", <<StepSafe>>)
PlanRisky == MkPlan(AllFields, "nginx", "web01", <<StepRisky>>)
PlanRollback == MkPlan(AllFields, "nginx", "web01", <<StepRiskyRb, StepSafe>>)
PlanSkip == MkPlan(AllFields, "nginx", "web01", <<StepBare, StepSafe>>)
PlanMalformed == MkPlan(AllFields, "nginx", "web01", <<StepSafe, StepString>>)
PlanGhost == MkPlan(AllFields, "nginx", "ghost", <<StepSafe>>)
PlanBadService == MkPlan(AllFields, "nginx", "db01", <<StepSafe>>)
PlanEmpty == MkPlan(AllFields, "nginx", "web01", <<>>)
PlanNoServer == MkPlan(AllFields \ {"server"}, "nginx", "web01", <<StepSafe>>)

CrewPlans == {PlanGood, PlanRisky, PlanRollback, PlanSkip, PlanMalformed, PlanGhost,
              PlanBadService, PlanEmpty, PlanNoServer}

VARIABLES
    ticket_log,     \* SupportCrew.ticket_log
    execution_log,  \* ExecutorAgent.execution_log
    ex,             \* per thread: the frame of its execute_remediation call
    returned,       \* per thread: what its last request returned
    executed,       \* history: every command handed to a shell, in order
    calls           \* history: number of requests started

crewvars == <<ticket_log, execution_log, ex, returned, executed, calls>>

IdleFrame ==
    [pc |-> "idle", call |-> 0, data |-> Nil, i |-> 0, results |-> <<>>,
     execution_successful |-> TRUE, pending |-> Nil]

CrewInit(W) ==
    /\ ticket_log = <<>>
    /\ execution_log = <<>>
    /\ ex = [w \in W |-> IdleFrame]
    /\ returned = [w \in W |-> Nil]
    /\ executed = <<>>
    /\ calls = 0

\* line 996: the service check; an empty service name skips it
ServiceConfigured_unchecked(service, server_info) == TRUE

ServiceConfigured_onlyEmpty(service, server_info) == service = ""

ServiceConfigured(service, server_info) ==
    \/ service = ""
    \/ InSeq(LowerName(service),
             [k \in 1..Len(server_info.services) |-> LowerName(server_info.services[k])])

\* lines 976-1001: the error the precondition checks return, None when they pass
PreconditionError(execution_data) ==
    LET server_name == Get(execution_data, "server")
        steps == IF "resolution_steps" \in execution_data.present
                 THEN execution_data.resolution_steps ELSE <<>>
        service == IF "service" \in execution_data.present
                   THEN execution_data.service ELSE ""
    IN IF server_name = None \/ server_name = "" \/ steps = <<>>
       THEN "Missing server name or resolution steps"
       ELSE IF server_name \notin DOMAIN infra_config
       THEN "Server not found in configuration"
       ELSE IF ~ServiceConfigured(service, infra_config[server_name])
       THEN "Service is not configured on server"
       ELSE None

\* orchestrator.py lines 123-137 and agents.py lines 973-1004: thread w starts
\* execute_remediation(ticket_id, execution_data).  ticket_id is only logged.
\* The caller (app.py, approve_execution) passes the posted execution_data on
\* as it is.
ExecStart(w, ticket_id, execution_data) ==
    /\ ex[w].pc = "idle"
    /\ calls < MaxCalls
    /\ calls' = calls + 1
    /\ IF PreconditionError(execution_data) # None
       THEN /\ ex' = [ex EXCEPT ![w] = [IdleFrame EXCEPT !.call = calls + 1,
                                                         !.data = execution_data]]
            /\ returned' = [returned EXCEPT ![w] =
                   [op |-> "execute_remediation", status |-> "error",
                    error |-> PreconditionError(execution_data)]]
       ELSE /\ ex' = [ex EXCEPT ![w] =
                   [pc |-> "loop", call |-> calls + 1, data |-> execution_data, i |-> 1,
                    results |-> <<>>, execution_successful |-> TRUE, pending |-> Nil]]
            /\ returned' = [returned EXCEPT ![w] = Nil]
    /\ UNCHANGED <<ticket_log, execution_log, executed>>

NeedsRollback_whenDefined(cmd_result, step) == step.rollback # <<>>

\* line 1030
NeedsRollback(cmd_result, step) == ~cmd_result.success /\ step.rollback # <<>>

Ran(w, kind, cmd, result) ==
    [call |-> ex[w].call, worker |-> w, plan |-> ex[w].data, step |-> ex[w].i,
     kind |-> kind, cmd |-> cmd, via |-> "subprocess.run", result |-> result]

\* lines 1006-1041, one pass of the loop body up to the rollback: a step that
\* is no object raises (line 1007) and the handler of lines 1059-1064 returns
\* an error; a step without validation command is skipped; otherwise the
\* command runs through _execute_step (lines 1066-1074)
ExecStep(w) ==
    /\ ex[w].pc = "loop"
    /\ ex[w].i <= Len(ex[w].data.resolution_steps)
    /\ LET step == ex[w].data.resolution_steps[ex[w].i] IN
       IF ~step.isdict
       THEN /\ ex' = [ex EXCEPT ![w].pc = "idle"]
            /\ returned' = [returned EXCEPT ![w] =
                   [op |-> "execute_remediation", status |-> "error",
                    error |-> "Execution failed"]]
            /\ UNCHANGED executed
       ELSE IF step.validation = <<>>
       THEN /\ ex' = [ex EXCEPT ![w].i = @ + 1]
            /\ UNCHANGED <<returned, executed>>
       ELSE \E outcome \in Outcomes :
            LET cmd_result == run_command_safely(step.validation, outcome)
                step_result == [step |-> IF step.haskey THEN step.step ELSE <<>>,
                                command |-> step.validation,
                                result |-> cmd_result,
                                rollback_result |-> Nil]
            IN /\ executed' = Append(executed, Ran(w, "step", step.validation, cmd_result))
               /\ IF NeedsRollback(cmd_result, step)
                  THEN ex' = [ex EXCEPT ![w].pc = "rollback", ![w].pending = step_result]
                  ELSE ex' = [ex EXCEPT ![w].results = Append(@, step_result),
                                        ![w].i = @ + 1]
               /\ UNCHANGED returned
    /\ UNCHANGED <<ticket_log, execution_log, calls>>

\* lines 1030-1041: the rollback of the failed step, then the append of its result
ExecRollback(w) ==
    /\ ex[w].pc = "rollback"
    /\ LET step == ex[w].data.resolution_steps[ex[w].i] IN
       \E outcome \in Outcomes :
       LET rollback_result == run_command_safely(step.rollback, outcome) IN
       /\ executed' = Append(executed, Ran(w, "rollback", step.rollback, rollback_result))
       /\ ex' = [ex EXCEPT ![w].pc = "loop",
                           ![w].results = Append(@, [ex[w].pending EXCEPT
                                                 !.rollback_result = rollback_result]),
                           ![w].execution_successful = FALSE,
                           ![w].pending = Nil,
                           ![w].i = @ + 1]
    /\ UNCHANGED <<ticket_log, execution_log, returned, calls>>

AppendRecord_front(log, record) == <<record>> \o log

\* line 1051: self.execution_log.append(execution_record)
AppendRecord(log, record) == Append(log, record)

\* lines 1043-1057: the record is appended and returned
ExecFinish(w) ==
    /\ ex[w].pc = "loop"
    /\ ex[w].i > Len(ex[w].data.resolution_steps)
    /\ LET execution_record ==
               [server |-> Get(ex[w].data, "server"),
                service |-> IF "service" \in ex[w].data.present
                            THEN ex[w].data.service ELSE "",
                results |-> ex[w].results, successful |-> ex[w].execution_successful]
       IN /\ execution_log' = AppendRecord(execution_log, execution_record)
          /\ returned' = [returned EXCEPT ![w] =
                 [op |-> "execute_remediation", status |-> "completed",
                  successful |-> ex[w].execution_successful,
                  execution |-> execution_record]]
    /\ ex' = [ex EXCEPT ![w].pc = "idle"]
    /\ UNCHANGED <<ticket_log, executed, calls>>

\* lines 1076-1078: get_execution_log hands out the log
GetExecutionLog(w) ==
    /\ ex[w].pc = "idle"
    /\ returned' = [returned EXCEPT ![w] =
           [op |-> "get_execution_log", status |-> "returned", log |-> execution_log]]
    /\ UNCHANGED <<ticket_log, execution_log, ex, executed, calls>>


(***************************************************************************)
(* agents.py, classify_issue (lines 290-334).  An issue text is modelled   *)
(* by what the function reads of it: whether it is blank, which pattern    *)
(* groups of CATEGORY_DEFINITIONS match it, and whether it names mysql.    *)
(* isstr is FALSE for a value that is no string.                           *)
(***************************************************************************)
MkIssue(blank, api, infra, knowledge, resolution, mysql) ==
    [isstr |-> TRUE, blank |-> blank, api |-> api, infra |-> infra,
     knowledge |-> knowledge, resolution |-> resolution, mysql |-> mysql]

IssueBlank == MkIssue(TRUE, FALSE, FALSE, FALSE, FALSE, FALSE)
IssueApi == MkIssue(FALSE, TRUE, FALSE, FALSE, TRUE, FALSE)
IssueInfra == MkIssue(FALSE, FALSE, TRUE, FALSE, FALSE, TRUE)
IssueKnowledge == MkIssue(FALSE, FALSE, FALSE, TRUE, FALSE, FALSE)
IssueOutage == MkIssue(FALSE, FALSE, FALSE, FALSE, TRUE, TRUE)
IssueOther == MkIssue(FALSE, FALSE, FALSE, FALSE, FALSE, FALSE)
\* a truthy value that is no string, such as a number of a JSON body
IssueNumber == [MkIssue(FALSE, FALSE, FALSE, FALSE, FALSE, FALSE) EXCEPT !.isstr = FALSE]

Issues == {IssueBlank, IssueApi, IssueInfra, IssueKnowledge, IssueOutage, IssueOther,
           IssueNumber}

\* the tuple classify_issue returns: (category, service, reason)
classify_issue(issue) ==
    IF issue.api
    THEN <<"api_query", "ansible", "Matched patterns: api_indicators, api_indicators">>
    ELSE IF issue.infra
    THEN <<"general_query", IF issue.mysql THEN "mysql" ELSE "",
           "Matched patterns: infrastructure, targets">>
    ELSE IF issue.knowledge
    THEN <<"knowledge_query", "", "Matched patterns: question_types">>
    ELSE IF issue.resolution
    THEN <<"needs_resolution", IF issue.mysql THEN "database" ELSE "",
           "Matched patterns: error_indicators, severity_indicators">>
    ELSE <<"general_query", "", "No specific patterns matched">>

\* what general_query_handler gives back: nothing, an error result, or a
\* successful result
QueryResults ==
    {Nil, [status |-> "error", type |-> "infrastructure_query"],
     [status |-> "success", type |-> "infrastructure_overview"]}

\* what the plan oracle (resolve_issue) gives back: nothing, an error result, or a plan
OracleError == [status |-> "error", error |-> "Failed to generate valid resolution plan"]

Ticket(issue, category, reason, service, response, resolution, validation) ==
    [issue |-> issue, category |-> category, classification_reason |-> reason,
     service |-> service, response |-> response, resolution |-> resolution,
     validation |-> validation]

\* orchestrator.py line 43: the test that recognises a failed classification
IsUncategorized(category) == category = "uncategorized"

\* orchestrator.py lines 26-121: one pass of handle_issue in thread w.  The
\* tuple of classify_issue is unpacked as (category, reason, service).  The
\* test of line 28 stands before the try block: user_input.strip() on a value
\* that is no string raises AttributeError to the caller (status "raised").
\* returned keeps the argument of the pass next to its result.
HandleIssue(w, user_input, query_result, resolution) ==
    /\ ex[w].pc = "idle"
    /\ calls < MaxCalls
    /\ calls' = calls + 1
    /\ LET cls == classify_issue(user_input)
           category == cls[1]
           reason == cls[2]
           service == cls[3]
           Return(r) == returned' = [returned EXCEPT ![w] = r @@ [input |-> user_input]]
           Error(e) == [op |-> "handle_issue", status |-> "error", error |-> e]
       IN IF user_input.blank
          THEN Return(Error("Empty query provided")) /\ UNCHANGED ticket_log
          ELSE IF ~user_input.isstr
          THEN Return([op |-> "handle_issue", status |-> "raised",
                       error |-> "AttributeError"]) /\ UNCHANGED ticket_log
          ELSE IF IsUncategorized(category)
          THEN Return(Error(reason)) /\ UNCHANGED ticket_log
          ELSE IF category \in {"general_query", "api_query", "knowledge_query"}
          THEN IF query_result = Nil
               THEN Return(Error("Failed to process query")) /\ UNCHANGED ticket_log
               ELSE IF query_result.status = "error"
               THEN Return([op |-> "handle_issue", status |-> "error",
                            type |-> query_result.type]) /\ UNCHANGED ticket_log
               ELSE /\ ticket_log' = Append(ticket_log,
                           Ticket(user_input, category, reason, service,
                                  query_result, Nil, Nil))
                    /\ Return([op |-> "handle_issue", status |-> query_result.status,
                               type |-> query_result.type])
          ELSE IF category = "needs_resolution"
          THEN IF resolution = Nil
               THEN Return(Error("NoneType has no attribute get")) /\ UNCHANGED ticket_log
               ELSE IF resolution = OracleError
               THEN Return(Error(resolution.error)) /\ UNCHANGED ticket_log
               ELSE /\ ticket_log' = Append(ticket_log,
                           Ticket(user_input, category, reason, service, Nil,
                                  resolution, validate_resolution(resolution)))
                    /\ Return([op |-> "handle_issue", status |-> "success",
                               type |-> "resolution", resolution |-> resolution,
                               validation |-> validate_resolution(resolution)])
          ELSE Return(Error("Unsupported query category")) /\ UNCHANGED ticket_log
    /\ UNCHANGED <<execution_log, ex, executed>>

(***************************************************************************)
(* core/command.py, run_command_async (lines 52-180), and core/remote.py,  *)
(* run_ssh_command over a real connection (lines 141-195).  The calls the  *)
(* model makes pass no metric, so lines 87-107 leave the command as it is. *)
(***************************************************************************)
TokLs == <<"l", "s">>
TokRmRf == BL_rm_rf
TokSemi == <<";">>
TokRDollar == <<"r", "$">>
TokMRf == <<"m", " ", "-", "r", "f">>
TokPing == <<"p", "i", "n", "g">>
TokLocalhost == <<" ", "l", "o", "c", "a", "l", "h", "o", "s", "t">>
TokCount == <<" ", "-", "c", " ", "4">>

CmdTokens == {TokLs, TokRmRf, TokSemi, TokRDollar, TokMRf, TokPing, TokLocalhost, TokCount}

\* the command strings given to run_command_async
Commands == {Concat(ts) : ts \in SeqsUpTo(CmdTokens, MaxTokens)}

\* the server argument: none, registered names, a legacy name, an unknown name
ServerArgs == {None, "web01", "db01", "db-server-01", "ghost"}

\* lines 71-80
legacy_server_mapping(server) ==
    CASE server = "web-server-01" -> "web01"
      [] server = "db-server-01" -> "db01"
      [] server = "app-server-01" -> "app01"
      [] OTHER -> server

\* line 132
SupportedOs(os_type) == os_type \in {"linux", "centos/stream9", "ubuntu/jammy64"}

\* the characters of the registry's names and addresses, as the f-strings and
\* str.replace of lines 112-121 put them into the command
Spell(str) ==
    CASE str = "web01" -> <<"w", "e", "b", "0", "1">>
      [] str = "db01" -> <<"d", "b", "0", "1">>
      [] str = "192.168.56.11" ->
            <<"1", "9", "2", ".", "1", "6", "8", ".", "5", "6", ".", "1", "1">>
      [] str = "192.168.56.15" ->
            <<"1", "9", "2", ".", "1", "6", "8", ".", "5", "6", ".", "1", "5">>
      [] OTHER -> <<>>

\* Python's s.startswith(t)
StartsWith(s, t) == Len(s) >= Len(t) /\ SubSeq(s, 1, Len(t)) = t

\* Python's s.replace(old, new) for a non-empty old: every occurrence, left
\* to right, without overlap
RECURSIVE Replace(_, _, _)
Replace(s, old, new) ==
    IF s = <<>> THEN <<>>
    ELSE IF StartsWith(s, old)
    THEN new \o Replace(SubSeq(s, Len(old) + 1, Len(s)), old, new)
    ELSE <<Head(s)>> \o Replace(Tail(s), old, new)

StrLocalhost == <<"l", "o", "c", "a", "l", "h", "o", "s", "t">>
StrLoopback == <<"1", "2", "7", ".", "0", ".", "0", ".", "1">>

\* lines 109-123: the ping command is pointed at the target server
RewritePing(cmd, server, server_info) ==
    IF StartsWith(cmd, TokPing) /\ Contains(cmd, StrLocalhost)
    THEN Replace(cmd, StrLocalhost, Spell(server))
    ELSE IF cmd = TokPing
    THEN TokPing \o TokCount \o <<" ">> \o Spell(server_info.ip)
    ELSE IF /\ StartsWith(cmd, TokPing)
            /\ Contains(cmd, <<" ">>)
            /\ ~Contains(cmd, <<".">>)
            /\ ~Contains(cmd, StrLocalhost)
            /\ ~Contains(cmd, StrLoopback)
    THEN cmd \o <<" ">> \o Spell(server_info.ip)
    ELSE cmd

\* how run_ssh_command ends over a real connection: the command exited with 0
\* and wrote nothing to stderr, the command wrote to stderr, the command
\* exited with a non-zero status and wrote nothing to stderr, authentication
\* failed, the SSH layer failed, the connection could not be opened
SshOutcomes == {"ok", "stderr", "nonzero_quiet", "auth_failed", "ssh_error",
                "connect_error"}

\* the outcomes in which the command was started on the server
SshRan == {"ok", "stderr", "nonzero_quiet"}

\* core/remote.py lines 141-195: the (success, output) pair; the exit status
\* of the command is not read, the success is stderr being empty
run_ssh_command(outcome) ==
    CASE outcome = "ok" -> <<TRUE, "stdout">>
      [] outcome = "stderr" -> <<FALSE, "stderr">>
      [] outcome = "nonzero_quiet" -> <<TRUE, "stdout">>
      [] outcome = "auth_failed" -> <<FALSE, "Authentication failed">>
      [] outcome = "ssh_error" -> <<FALSE, "SSH connection error">>
      [] OTHER -> <<FALSE, "Unable to connect">>

\* how one attempt of the local loop ends: the subprocess could not be
\* started, it exited with 0, it exited with a non-zero code, it ran into the
\* timeout, or reading its output raised
LocalOutcomes == {"spawn_error", "ok", "nonzero", "timeout", "read_error"}

\* range(3), line 159
MaxAttempts == 3

Retried_alsoTimeout(outcome) == outcome \in {"spawn_error", "read_error", "timeout"}

Retried_alsoNonzero(outcome) == outcome \in {"spawn_error", "read_error", "nonzero"}

\* lines 177-179: the attempt raised an exception other than the timeout that
\* line 168 handles, so the loop goes on to the next attempt
Retried(outcome) == outcome \in {"spawn_error", "read_error"}

VARIABLES
    rc,         \* the frame of the run_command_async call
    rc_result   \* what the call returned, Nil while it runs

\* input is the command as the caller gave it, cmd the command as the call has
\* it now, attempt the loop index, tried the attempts begun, last how the
\* last attempt or the SSH call ended
CmdFrame(pc, cmd, server) ==
    [pc |-> pc, cmd |-> cmd, input |-> cmd, server |-> server, attempt |-> 0,
     tried |-> 0, last |-> "none"]

CmdIdle ==
    /\ rc = CmdFrame("idle", <<>>, None)
    /\ rc_result = Nil

CmdInit ==
    /\ rc \in {CmdFrame("called", cmd, server) : cmd \in Commands, server \in ServerArgs}
    /\ rc_result = Nil

CmdResult(success, output, return_code) ==
    [success |-> success, output |-> output, return_code |-> return_code]

RanCommand(via, host, cmd, success) ==
    [call |-> 0, worker |-> "cmd", plan |-> Nil, step |-> 0, kind |-> "command",
     cmd |-> cmd, via |-> via, host |-> host, result |-> [success |-> success]]

\* lines 64-67 and 125-129: the safety check between sanitize_input and the
\* execution is commented out, and is_command_safe returns True for every
\* command
CommandGate(cmd) == is_command_safe(cmd)

\* lines 52-156: the call up to the remote execution or the start of the
\* local loop
CmdEnter ==
    /\ rc.pc = "called"
    /\ LET sanitized == sanitize_input(rc.cmd)
           server == legacy_server_mapping(rc.server)
       IN IF ~CommandGate(sanitized)
          THEN /\ rc_result' = CmdResult(FALSE, "Command not allowed.", -1)
               /\ rc' = [rc EXCEPT !.pc = "done"]
               /\ UNCHANGED executed
          ELSE IF server # None /\ server \in DOMAIN infra_config
          THEN LET server_info == infra_config[server]
                   cmd == RewritePing(sanitized, server, server_info)
               IN
               IF ~SupportedOs(server_info.os)
               THEN /\ rc_result' = CmdResult(FALSE, "Unsupported OS type", -1)
                    /\ rc' = [rc EXCEPT !.pc = "done"]
                    /\ UNCHANGED executed
               ELSE IF cmd = <<>>
               THEN /\ rc_result' = CmdResult(FALSE, "No command specified or generated.", -1)
                    /\ rc' = [rc EXCEPT !.pc = "done"]
                    /\ UNCHANGED executed
               ELSE \E outcome \in SshOutcomes :
                    LET r == run_ssh_command(outcome) IN
                    /\ rc_result' = CmdResult(r[1], r[2], IF r[1] THEN 0 ELSE 1)
                    /\ rc' = [rc EXCEPT !.pc = "done", !.cmd = cmd, !.last = outcome]
                    /\ executed' = IF outcome \in SshRan
                                   THEN Append(executed,
                                               RanCommand("ssh", server_info.ip, cmd, r[1]))
                                   ELSE executed
          ELSE IF sanitized = <<>>
          THEN /\ rc_result' = CmdResult(FALSE, "No command specified for local execution.", -1)
               /\ rc' = [rc EXCEPT !.pc = "done"]
               /\ UNCHANGED executed
          ELSE /\ rc' = [rc EXCEPT !.pc = "local", !.cmd = sanitized]
               /\ UNCHANGED <<rc_result, executed>>

\* lines 159-179: one attempt of the local loop
CmdLocalAttempt ==
    /\ rc.pc = "local"
    /\ rc.attempt < MaxAttempts
    /\ \E outcome \in LocalOutcomes :
          /\ executed' = IF outcome = "spawn_error" THEN executed
                         ELSE Append(executed,
                                     RanCommand("create_subprocess_shell", "local", rc.cmd,
                                                outcome = "ok"))
          /\ IF Retried(outcome)
             THEN /\ rc' = [rc EXCEPT !.attempt = @ + 1, !.tried = @ + 1,
                                      !.last = outcome]
                  /\ UNCHANGED rc_result
             ELSE /\ rc' = [rc EXCEPT !.pc = "done", !.tried = @ + 1, !.last = outcome]
                  /\ rc_result' =
                        CASE outcome = "ok" -> CmdResult(TRUE, "stdout", 0)
                          [] outcome = "timeout" -> CmdResult(FALSE, "Timeout", -1)
                          [] OTHER -> CmdResult(FALSE, "stdout stderr", 1)

\* line 180: the loop ended without a completed attempt
CmdRetriesExhausted ==
    /\ rc.pc = "local"
    /\ rc.attempt = MaxAttempts
    /\ rc_result' = CmdResult(FALSE, "Failed after retries", -1)
    /\ rc' = [rc EXCEPT !.pc = "done"]
    /\ UNCHANGED executed

(***************************************************************************)
(* core/security.py, sanitize_input applied to command strings, once and   *)
(* again to its own result.                                                *)
(***************************************************************************)
\* longest command string drawn
MaxLen == 3

\* the characters of the command strings: the five of the class, pipe,
\* ampersand, backslash and a letter
SanChars == StripChars \cup {"|", "&", "\\", "a"}

VARIABLES
    san_arg,    \* the command string
    san_hist    \* the results of the successive applications of sanitize_input

sanvars == <<san_arg, san_hist>>

SanIdle ==
    /\ san_arg = <<>>
    /\ san_hist = <<>>

SanInit ==
    /\ san_arg \in SeqsUpTo(SanChars, MaxLen)
    /\ san_hist = <<>>

\* sanitize_input(c), then sanitize_input(sanitize_input(c))
Sanitize ==
    /\ Len(san_hist) < 2
    /\ san_hist' = Append(san_hist,
                          sanitize_input(IF san_hist = <<>> THEN san_arg
                                         ELSE san_hist[Len(san_hist)]))
    /\ UNCHANGED san_arg

(***************************************************************************)
(* The classifiers.  agents.py, classify_issue reads the lowercased text   *)
(* through the regular expressions of CATEGORY_DEFINITIONS; a text is a    *)
(* sequence of words here and a pattern matches by the words it needs.     *)
(* agents/issue_classifier_agent.py, classify_issue parses the response of *)
(* the language model.                                                     *)
(***************************************************************************)
\* longest issue text drawn, in words
MaxWords == 3

Words == {"check", "status", "uptime", "server", "failed", "explain", "ansible", "mysql"}

\* the issue of end-to-end scenario A
TextScenarioA == <<"db01", "is", "not", "responding">>

Texts == SeqsUpTo(Words, MaxWords) \cup {TextScenarioA}

\* patterns["infrastructure"]: r"uptime", and r"check.*status" which needs
\* the two words in that order
MatchesInfrastructure(text) ==
    \/ InSeq("uptime", text)
    \/ \E i, j \in 1..Len(text) : i < j /\ text[i] = "check" /\ text[j] = "status"

\* patterns["targets"]: r"server"
MatchesTargets(text) == InSeq("server", text)

\* services["ansible"]: r"ansible"
MatchesApiService(text) == InSeq("ansible", text)

\* patterns["question_types"]: r"explain"
MatchesKnowledge(text) == InSeq("explain", text)

\* patterns["error_indicators"]: r"fail(ed|ing)?", and r"not\s+working" which
\* needs the two words next to each other
MatchesResolution(text) ==
    \/ InSeq("failed", text)
    \/ \E i \in 1..(Len(text) - 1) : text[i] = "not" /\ text[i + 1] = "working"

\* what classify_issue reads of a text
IssueOf(text) ==
    MkIssue(text = <<>>, MatchesApiService(text),
            MatchesInfrastructure(text) /\ MatchesTargets(text),
            MatchesKnowledge(text), MatchesResolution(text), InSeq("mysql", text))

\* a response of the language model: whether json.loads accepts it, whether
\* it is an object, and the fields of the object (None for an absent key).
\* confidence, in tenths, is what the model claims for its category.
MkResponse(parses, isobject, category, reason, confidence) ==
    [parses |-> parses, isobject |-> isobject, category |-> category,
     reason |-> reason, confidence |-> confidence]

ResponseGarbled == MkResponse(FALSE, FALSE, None, None, 5)
ResponseList == MkResponse(TRUE, FALSE, None, None, 5)
ResponseEmptyObject == MkResponse(TRUE, TRUE, None, None, 9)
ResponseOutageUnsure == MkResponse(TRUE, TRUE, "needs_resolution", "looks broken", 5)
ResponseOutageSure == MkResponse(TRUE, TRUE, "needs_resolution", "looks broken", 9)
ResponseQueryUnsure == MkResponse(TRUE, TRUE, "general_query", "asks for data", 5)

Responses == {ResponseGarbled, ResponseList, ResponseEmptyObject, ResponseOutageUnsure,
              ResponseOutageSure, ResponseQueryUnsure}

\* agents/issue_classifier_agent.py lines 22-30: the pair (category, reason);
\* json.loads raising, or result.get on a value that is no object, ends in
\* the except clause
issue_classifier_agent_classify_issue(response) ==
    IF response.parses /\ response.isobject
    THEN <<IF response.category = None THEN "Uncategorized" ELSE response.category,
           IF response.reason = None THEN "No reasoning provided."
           ELSE response.reason>>
    ELSE <<"Uncategorized", "Could not classify due to response format error.">>

VARIABLES
    cl_text,      \* the issue text
    cl_response,  \* the response of the language model to it
    cl_result     \* what a classifier returned, Nil before the call

clvars == <<cl_text, cl_response, cl_result>>

ClIdle ==
    /\ cl_text = <<>>
    /\ cl_response = ResponseGarbled
    /\ cl_result = Nil

ClInit ==
    /\ cl_text \in Texts
    /\ cl_response \in Responses
    /\ cl_result = Nil

\* agents.py, classify_issue(issue): the response of the model is not read
ClassifyIssue ==
    /\ cl_result = Nil
    /\ cl_result' = [by |-> "agents.classify_issue", value |-> classify_issue(IssueOf(cl_text))]
    /\ UNCHANGED <<cl_text, cl_response>>

\* agents/issue_classifier_agent.py, classify_issue(issue)
ClassifyByModel ==
    /\ cl_result = Nil
    /\ cl_result' = [by |-> "issue_classifier_agent.classify_issue",
                     value |-> issue_classifier_agent_classify_issue(cl_response)]
    /\ UNCHANGED <<cl_text, cl_response>>

(***************************************************************************)
(* Single calls of core/remote.py run_ssh_command (lines 111-195) and of   *)
(* core/security.py has_permission (lines 76-81).                          *)
(***************************************************************************)
\* SIMULATED_RESPONSES, lines 19-85, in the order of the table; every entry
\* has success True, and the output texts are abridged
SimEntry(key, output) == [key |-> key, success |-> TRUE, output |-> output]

SIMULATED_RESPONSES ==
    <<SimEntry(<<"s", "y", "s", "t", "e", "m", "c", "t", "l", " ", "s", "t",
                 "a", "t", "u", "s", " ", "n", "g", "i", "n", "x">>,
               "nginx.service active"),
      SimEntry(<<"s", "y", "s", "t", "e", "m", "c", "t", "l", " ", "s", "t",
                 "a", "t", "u", "s", " ", "t", "o", "m", "c", "a", "t">>,
               "tomcat.service active"),
      SimEntry(<<"s", "y", "s", "t", "e", "m", "c", "t", "l", " ", "s", "t",
                 "a", "t", "u", "s", " ", "m", "y", "s", "q", "l">>,
               "mysql.service active"),
      SimEntry(<<"s", "y", "s", "t", "e", "m", "c", "t", "l", " ", "s", "t",
                 "a", "t", "u", "s", " ", "m", "y", "s", "q", "l", "d">>,
               "mysqld.service active"),
      SimEntry(<<"u", "p", "t", "i", "m", "e">>,
               "up 15 days"),
      SimEntry(<<"f", "r", "e", "e", " ", "-", "m">>,
               "Mem: 7982"),
      SimEntry(<<"d", "f", " ", "-", "h">>,
               "Filesystem Size Used"),
      SimEntry(<<"t", "o", "p", " ", "-", "b", " ", "-", "n", "1", " ", "|",
                 " ", "g", "r", "e", "p", " ", "\"", "C", "p", "u", "(", "s",
                 ")", "\"">>,
               "%Cpu(s): 5.9 us"),
      SimEntry(<<"c", "a", "t", " ", "/", "p", "r", "o", "c", "/", "l", "o",
                 "a", "d", "a", "v", "g">>,
               "0.08 0.12 0.09")>>

\* the command argument: the keys of the table, commands that begin with the
\* first word of a key, commands that match no key, and the empty command
SshCommands ==
    {SIMULATED_RESPONSES[i].key : i \in DOMAIN SIMULATED_RESPONSES} \cup
    {<<>>,
     <<"s", "y", "s", "t", "e", "m", "c", "t", "l", " ", "r", "e", "s", "t",
       "a", "r", "t", " ", "n", "g", "i", "n", "x">>,
     <<"u", "p", "t", "i", "m", "e", " ", "-", "p">>,
     <<"c", "a", "t", " ", "/", "e", "t", "c", "/", "p", "a", "s", "s", "w",
       "d">>,
     <<"d", "f", "x">>,
     <<"s", "e", "r", "v", "i", "c", "e", " ", "n", "g", "i", "n", "x", " ",
       "s", "t", "a", "t", "u", "s">>,
     <<"w", "h", "o", "a", "m", "i">>,
     <<"f", "r", "e", "e", " ", "-", "g">>,
     <<"t", "o", "p">>,
     <<"s", "t", "a", "t", "u", "s">>}

\* the host argument: empty, or the address of a registered server
SshHosts == {"", "192.168.56.11"}

\* Python's s.split()[0] for a non-empty s without leading whitespace
FirstWord(s) ==
    IF \E i \in 1..Len(s) : s[i] = " "
    THEN SubSeq(s, 1, (CHOOSE i \in 1..Len(s) :
                          s[i] = " " /\ \A j \in 1..(i - 1) : s[j] # " ") - 1)
    ELSE s

StrStatus == <<"s", "t", "a", "t", "u", "s">>

\* the index of the first entry of the table, in its order, that satisfies P
FirstEntry(P(_)) ==
    CHOOSE i \in DOMAIN SIMULATED_RESPONSES :
        P(SIMULATED_RESPONSES[i]) /\ \A j \in 1..(i - 1) : ~P(SIMULATED_RESPONSES[j])

SimulatedResponse_prefixFirst(command) ==
    LET Prefix(e) == StartsWith(command, FirstWord(e.key))
        Some(P(_)) == \E i \in DOMAIN SIMULATED_RESPONSES : P(SIMULATED_RESPONSES[i])
    IN IF Some(Prefix)
       THEN LET e == SIMULATED_RESPONSES[FirstEntry(Prefix)] IN <<e.success, e.output>>
       ELSE <<TRUE, "Simulated output for">>

\* lines 118-139: the (success, output) pair of the simulation
SimulatedResponse(command) ==
    LET Exact(e) == e.key = command
        Prefix(e) == StartsWith(command, FirstWord(e.key))
        Some(P(_)) == \E i \in DOMAIN SIMULATED_RESPONSES : P(SIMULATED_RESPONSES[i])
    IN IF Some(Exact)
       THEN LET e == SIMULATED_RESPONSES[FirstEntry(Exact)] IN <<e.success, e.output>>
       ELSE IF Some(Prefix)
       THEN LET e == SIMULATED_RESPONSES[FirstEntry(Prefix)] IN <<e.success, e.output>>
       ELSE IF Contains(command, StrStatus)
       THEN <<TRUE, "Service is running">>
       ELSE <<TRUE, "Simulated output for">>

\* DEFAULT_RBAC, lines 11-25
DEFAULT_RBAC ==
    [roles |-> [admin |-> [permissions |-> <<"execute_any_command",
                                             "approve_remediation", "view_logs">>],
                viewer |-> [permissions |-> <<"view_logs", "view_status">>]],
     users |-> [system |-> [role |-> "admin"]]]

\* a policy as config/rbac.yaml may hold it (lines 38-48): a role of its own,
\* a user with a role the roles table lacks, a user entry without a role
SiteRbac ==
    [roles |-> [admin |-> [permissions |-> <<"execute_any_command",
                                             "approve_remediation", "view_logs">>],
                operator |-> [permissions |-> <<"approve_remediation", "view_logs">>],
                viewer |-> [permissions |-> <<"view_status">>]],
     users |-> [system |-> [role |-> "admin"],
                alice |-> [role |-> "operator"],
                bob |-> [role |-> "auditor"],
                carol |-> [shift |-> "night"]]]

Policies == {DEFAULT_RBAC, SiteRbac}

Users == {"system", "alice", "bob", "carol", "mallory"}

Permissions == {"execute_any_command", "approve_remediation", "view_logs",
                "view_status", "restart_service"}

get_user_role_defaultsAdmin(RBAC, user) ==
    IF user \in DOMAIN RBAC.users /\ "role" \in DOMAIN RBAC.users[user]
    THEN RBAC.users[user].role
    ELSE "admin"

\* lines 76-77
get_user_role(RBAC, user) ==
    IF user \in DOMAIN RBAC.users /\ "role" \in DOMAIN RBAC.users[user]
    THEN RBAC.users[user].role
    ELSE "viewer"

\* lines 79-81
has_permission(RBAC, user, permission) ==
    LET role == get_user_role(RBAC, user) IN
    IF role \in DOMAIN RBAC.roles /\ "permissions" \in DOMAIN RBAC.roles[role]
    THEN InSeq(permission, RBAC.roles[role].permissions)
    ELSE FALSE

VARIABLES
    op,         \* the call: the function and its arguments
    op_result   \* what the call returned, Nil before it returns

opvars == <<op, op_result>>

OpIdle ==
    /\ op = [name |-> "none"]
    /\ op_result = Nil

SshCalls ==
    {[name |-> "run_ssh_command", host |-> host, command |-> command,
      simulation |-> simulation] :
        host \in SshHosts, command \in SshCommands, simulation \in BOOLEAN}

PermissionCalls ==
    {[name |-> "has_permission", RBAC |-> RBAC, user |-> user,
      permission |-> permission] :
        RBAC \in Policies, user \in Users, permission \in Permissions}

\* core/remote.py lines 111-195: connected tells whether the call went on to
\* open a connection
RunSshCommand ==
    /\ op.name = "run_ssh_command"
    /\ op_result = Nil
    /\ IF op.host = "" \/ op.command = <<>>
       THEN op_result' = [success |-> FALSE, connected |-> FALSE,
                          output |-> "Missing required parameters for SSH connection"]
       ELSE IF op.simulation
       THEN LET r == SimulatedResponse(op.command) IN
            op_result' = [success |-> r[1], output |-> r[2], connected |-> FALSE]
       ELSE \E outcome \in SshOutcomes :
            LET r == run_ssh_command(outcome) IN
            op_result' = [success |-> r[1], output |-> r[2], connected |-> TRUE]
    /\ UNCHANGED op

\* core/security.py lines 79-81
HasPermission ==
    /\ op.name = "has_permission"
    /\ op_result = Nil
    /\ op_result' = [value |-> has_permission(op.RBAC, op.user, op.permission)]
    /\ UNCHANGED op

\* agents.py lines 529-653, InfrastructureQueryAgent.process_query: the order
\* in which infra_config.items() yields the registry
ServerOrder == <<"web01", "db01">>

\* the server name found in the query (lines 535-596), None when there is none
QueryServerNames == {None, "web01", "db01"}

\* the service argument, or the service found in the query (lines 598-606),
\* empty when there is none
QueryServices == {"", "nginx", "tomcat", "mysql", "redis"}

QueryCalls ==
    {[name |-> "process_query", server_name |-> server_name, service |-> service,
      i |-> 0, results |-> <<>>] :
        server_name \in QueryServerNames, service \in QueryServices}

NextServer_stopsOnFailure(i, cmd_result) ==
    IF cmd_result.success THEN i + 1 ELSE Len(ServerOrder)

\* line 610: the for loop goes on to the next server of the registry whatever
\* the command returned
NextServer(i, cmd_result) == i + 1

\* lines 610-633: one iteration of the loop over the registry; the command is
\* run by run_command_async on a registered server (core/command.py lines
\* 132-141)
ProcessQueryStep ==
    /\ op.name = "process_query"
    /\ op_result = Nil
    /\ op.i < Len(ServerOrder)
    /\ LET server == ServerOrder[op.i + 1]
           config == infra_config[server]
       IN IF op.server_name # None /\ server # op.server_name
          THEN op' = [op EXCEPT !.i = @ + 1]
          ELSE IF op.service # "" /\ ~InSeq(op.service, config.services)
          THEN op' = [op EXCEPT !.i = @ + 1]
          ELSE \E outcome \in SshOutcomes :
               LET r == run_ssh_command(outcome)
                   cmd_result == CmdResult(r[1], r[2], IF r[1] THEN 0 ELSE 1)
               IN op' = [op EXCEPT
                           !.i = NextServer(@, cmd_result),
                           !.results = (server :> [ip |-> config.ip,
                                                   services |-> config.services,
                                                   commands |-> <<cmd_result>>]) @@ @]
    /\ UNCHANGED op_result

\* lines 635-646: the return after the loop
ProcessQueryReturn ==
    /\ op.name = "process_query"
    /\ op_result = Nil
    /\ op.i = Len(ServerOrder)
    /\ op_result' = IF DOMAIN op.results = {}
                    THEN [status |-> "error", type |-> "infrastructure_query",
                          error |-> "No matching servers found for the query."]
                    ELSE [status |-> "success", type |-> "infrastructure_query",
                          results |-> op.results]
    /\ UNCHANGED op

\* the issues that handle_issue sends to the resolver
ResolutionIssues == {i \in Issues : ~i.blank /\ classify_issue(i)[1] = "needs_resolution"}

\* the posted ticket identifiers
TicketIds == {"T1", "T2"}

purevars == <<sanvars, clvars, opvars>>

vars == <<resolution_in, verdict, ticket_log, execution_log, ex, returned, executed,
          calls, rc, rc_result, san_arg, san_hist, cl_text, cl_response, cl_result,
          op, op_result>>

(***************************************************************************)
(* Spec: the orchestrator and the executor, one request at a time.         *)
(***************************************************************************)
Init ==
    /\ CrewInit({"t1"})
    /\ resolution_in = Nil
    /\ verdict = Nil
    /\ CmdIdle
    /\ SanIdle
    /\ ClIdle
    /\ OpIdle

Next ==
    \/ \E issue \in Issues \ ResolutionIssues, q \in QueryResults :
          HandleIssue("t1", issue, q, Nil) /\ UNCHANGED <<vvars, rc, rc_result, purevars>>
    \/ \E issue \in ResolutionIssues, r \in CrewPlans \cup {Nil, OracleError} :
          HandleIssue("t1", issue, Nil, r) /\ UNCHANGED <<vvars, rc, rc_result, purevars>>
    \/ \E tid \in TicketIds, data \in CrewPlans :
          ExecStart("t1", tid, data) /\ UNCHANGED <<vvars, rc, rc_result, purevars>>
    \/ ExecStep("t1") /\ UNCHANGED <<vvars, rc, rc_result, purevars>>
    \/ ExecRollback("t1") /\ UNCHANGED <<vvars, rc, rc_result, purevars>>
    \/ ExecFinish("t1") /\ UNCHANGED <<vvars, rc, rc_result, purevars>>
    \/ GetExecutionLog("t1") /\ UNCHANGED <<vvars, rc, rc_result, purevars>>

Spec == Init /\ [][Next]_vars

(***************************************************************************)
(* SpecValidator: validate_resolution applied to every plan of             *)
(* ValidatorPlans.                                                         *)
(***************************************************************************)
InitValidator ==
    /\ ValidatorInit
    /\ CrewInit({"t1"})
    /\ CmdIdle
    /\ SanIdle
    /\ ClIdle
    /\ OpIdle

NextValidator == Validate /\ UNCHANGED <<crewvars, rc, rc_result, purevars>>

SpecValidator == InitValidator /\ [][NextValidator]_vars

(***************************************************************************)
(* SpecCmd: one call of run_command_async for every command of Commands    *)
(* and every server argument.                                              *)
(***************************************************************************)
InitCmd ==
    /\ CmdInit
    /\ CrewInit({"t1"})
    /\ resolution_in = Nil
    /\ verdict = Nil
    /\ SanIdle
    /\ ClIdle
    /\ OpIdle

NextCmd ==
    \/ CmdEnter /\ UNCHANGED <<vvars, ticket_log, execution_log, ex, returned, calls, purevars>>
    \/ CmdLocalAttempt /\ UNCHANGED <<vvars, ticket_log, execution_log, ex, returned, calls, purevars>>
    \/ CmdRetriesExhausted
          /\ UNCHANGED <<vvars, ticket_log, execution_log, ex, returned, calls, purevars>>

SpecCmd == InitCmd /\ [][NextCmd]_vars

\* every await of the call returns: the subprocess ends or the timeout of
\* wait_for fires, and the sleep between two attempts lasts one second
SpecCmdLive == SpecCmd /\ WF_vars(NextCmd)

(***************************************************************************)
(* SpecSanitize: sanitize_input applied twice to every command string of   *)
(* up to MaxLen characters.                                                *)
(***************************************************************************)
InitSanitize ==
    /\ SanInit
    /\ CrewInit({"t1"})
    /\ resolution_in = Nil
    /\ verdict = Nil
    /\ CmdIdle
    /\ ClIdle
    /\ OpIdle

NextSanitize == Sanitize /\ UNCHANGED <<vvars, crewvars, rc, rc_result, clvars, opvars>>

SpecSanitize == InitSanitize /\ [][NextSanitize]_vars

(***************************************************************************)
(* SpecClassify: each classifier applied to every text of up to MaxWords   *)
(* words and every response of the language model.                         *)
(***************************************************************************)
InitClassify ==
    /\ ClInit
    /\ OpIdle
    /\ CrewInit({"t1"})
    /\ resolution_in = Nil
    /\ verdict = Nil
    /\ CmdIdle
    /\ SanIdle

NextClassify ==
    \/ ClassifyIssue /\ UNCHANGED <<vvars, crewvars, rc, rc_result, sanvars, opvars>>
    \/ ClassifyByModel /\ UNCHANGED <<vvars, crewvars, rc, rc_result, sanvars, opvars>>

SpecClassify == InitClassify /\ [][NextClassify]_vars

(***************************************************************************)
(* SpecOps: one call of run_ssh_command, of has_permission or of           *)
(* process_query, for every argument drawn.                                *)
(***************************************************************************)
InitOps ==
    /\ op \in SshCalls \cup PermissionCalls \cup QueryCalls
    /\ op_result = Nil
    /\ CmdIdle
    /\ CrewInit({"t1"})
    /\ resolution_in = Nil
    /\ verdict = Nil
    /\ SanIdle
    /\ ClIdle

NextOps ==
    \/ RunSshCommand /\ UNCHANGED <<vvars, crewvars, rc, rc_result, sanvars, clvars>>
    \/ HasPermission /\ UNCHANGED <<vvars, crewvars, rc, rc_result, sanvars, clvars>>
    \/ ProcessQueryStep /\ UNCHANGED <<vvars, crewvars, rc, rc_result, sanvars, clvars>>
    \/ ProcessQueryReturn /\ UNCHANGED <<vvars, crewvars, rc, rc_result, sanvars, clvars>>

SpecOps == InitOps /\ [][NextOps]_vars

(***************************************************************************)
(* SpecConcurrent: the request threads of the web server (app.py line 168, *)
(* the development server of Flask serves every request on a thread of its *)
(* own) call execute_remediation on the one SupportCrew of app.py line 19. *)
(* No lock is taken on the way from the route to the executor.             *)
(***************************************************************************)
Workers == {"t1", "t2"}

InitConcurrent ==
    /\ CrewInit(Workers)
    /\ resolution_in = Nil
    /\ verdict = Nil
    /\ CmdIdle
    /\ SanIdle
    /\ ClIdle
    /\ OpIdle

NextConcurrent ==
    \/ \E w \in Workers, tid \in TicketIds, data \in CrewPlans :
          ExecStart(w, tid, data) /\ UNCHANGED <<vvars, rc, rc_result, purevars>>
    \/ \E w \in Workers : ExecStep(w) /\ UNCHANGED <<vvars, rc, rc_result, purevars>>
    \/ \E w \in Workers : ExecRollback(w) /\ UNCHANGED <<vvars, rc, rc_result, purevars>>
    \/ \E w \in Workers : ExecFinish(w) /\ UNCHANGED <<vvars, rc, rc_result, purevars>>

SpecConcurrent == InitConcurrent /\ [][NextConcurrent]_vars



(***************************************************************************)
(* Properties of validate_resolution, checked under SpecValidator.         *)
(***************************************************************************)
Validated == verdict # Nil

\* the plan passes the checks of lines 816-860
PassesStructural(plan) ==
    /\ AllFields \subseteq plan.present
    /\ plan.server \in DOMAIN infra_config
    /\ InSeq(plan.service, infra_config[plan.server].services)
    /\ plan.resolution_steps # <<>>

\* an entry that the loop over the steps, or a penalty, adds to a verdict's lists
IsStepEntry(e) == e[1] \in {"Step", "Step issues"}
IsPenaltyEntry(e) ==
    e[1] \in {"Use valid severity level: high, medium, or low",
              "Add potential risks assessment", "Add prerequisites"}

\* C4: validate_resolution returns approved=false with confidence 0.0 for every
\* plan whose server is not a key of the server registry, whatever the plan's
\* other fields are.
C4_UnknownServerRejected ==
    (Validated /\ Get(resolution_in, "server") \notin DOMAIN infra_config)
        => (~verdict.approved /\ verdict.confidence = 0)

\* an otherwise flawless plan, naming an unregistered server, has been rejected
C4_Witness ==
    /\ Validated
    /\ resolution_in = [PlanGood EXCEPT !.server = "ghost"]
    /\ ~verdict.approved
    /\ verdict.reason[1] = "Server not found in configuration"

\* C5: validate_resolution returns approved=false with confidence 0.0 whenever
\* a required field is missing, the plan's service is not among the registered
\* server's managed services, or the step list is empty; in none of these cases
\* does the verdict carry an entry of a per-step check or of a penalty.
C5_StructuralRejection ==
    (/\ Validated
     /\ \/ ~(AllFields \subseteq resolution_in.present)
        \/ /\ resolution_in.server \in DOMAIN infra_config
           /\ ~InSeq(resolution_in.service, infra_config[resolution_in.server].services)
        \/ resolution_in.resolution_steps = <<>>)
        => /\ ~verdict.approved
           /\ verdict.confidence = 0
           /\ \A k \in 1..Len(verdict.risks_identified) :
                 ~IsStepEntry(verdict.risks_identified[k])
           /\ \A k \in 1..Len(verdict.suggested_modifications) :
                 /\ ~IsStepEntry(verdict.suggested_modifications[k])
                 /\ ~IsPenaltyEntry(verdict.suggested_modifications[k])

\* a plan with an invalid severity, no risks, no prerequisites and an empty
\* step list has been rejected with confidence 0
C5_Witness ==
    /\ Validated
    /\ AllFields \subseteq resolution_in.present
    /\ resolution_in.server = "web01" /\ resolution_in.service = "nginx"
    /\ resolution_in.severity = "critical"
    /\ resolution_in.risks = <<>> /\ resolution_in.prerequisites = <<>>
    /\ resolution_in.resolution_steps = <<>>
    /\ verdict.confidence = 0
    /\ verdict.reason[1] = "No resolution steps provided"

\* a step with a risky action text and no rollback command
RiskyWithoutRollback(step) ==
    /\ step.isdict /\ step.haskey
    /\ \E term \in risky_terms : Contains(Lower(step.step), term)
    /\ step.rollback = <<>>

\* C6: for a plan that passes the structural checks, every step whose action
\* text contains one of remove, delete, drop, truncate, restart, stop and that
\* has no rollback command contributes an entry to risks_identified, and a plan
\* with at least one such step is never approved.
C6_RiskyStepsListed ==
    (Validated /\ PassesStructural(resolution_in))
        => \A i \in 1..Len(resolution_in.resolution_steps) :
              RiskyWithoutRollback(resolution_in.resolution_steps[i])
                  => /\ InSeq(<<"Step", i, "involves risky operation without rollback">>,
                              verdict.risks_identified)
                     /\ ~verdict.approved

\* C7: for a plan that passes the structural checks, validate_resolution
\* returns approved=true if and only if the final confidence is at least 0.7
\* and risks_identified is empty.
C7_ApprovalRule ==
    (Validated /\ PassesStructural(resolution_in))
        => (verdict.approved <=>
               (verdict.confidence >= 7 /\ verdict.risks_identified = <<>>))

\* a plan whose confidence is at least 0.7 has been rejected for its one risk
C7_Witness ==
    /\ Validated
    /\ PassesStructural(resolution_in)
    /\ verdict.confidence >= 7
    /\ Len(verdict.risks_identified) = 1
    /\ ~verdict.approved


(***************************************************************************)
(* Properties of the orchestrator and the executor, checked under Spec.    *)
(***************************************************************************)
\* C1: in every sequence of handle_issue and execute_remediation calls, the
\* executor runs the step commands of a plan only if a validation verdict with
\* approved=true was produced for that plan: every command that has run belongs
\* to a plan that a ticket of the ticket log holds together with an approving
\* verdict.
C1_ExecutedOnlyIfApproved ==
    \A k \in 1..Len(executed) :
        executed[k].plan # Nil =>
            \E t \in 1..Len(ticket_log) :
                /\ ticket_log[t].resolution = executed[k].plan
                /\ ticket_log[t].validation # Nil
                /\ ticket_log[t].validation.approved

\* C2: a command whose sanitized form contains a blacklist substring is never
\* executed by run_command_async, neither remotely nor locally: no command
\* that run_command_async has handed to SSH or to a local shell contains a
\* blacklist substring, and a call for such a command returns success=false.
C2_BlacklistedNeverExecuted ==
    /\ \A k \in 1..Len(executed) :
          executed[k].via \in {"ssh", "create_subprocess_shell"}
              => ~Blacklisted(executed[k].cmd)
    /\ (rc_result # Nil /\ Blacklisted(sanitize_input(rc.cmd))) => ~rc_result.success

\* C3: every command string that reaches an execution point has first been
\* passed through sanitize_input, so an executed command never contains any of
\* the characters that sanitize_input deletes.
C3_ExecutedCommandsSanitized ==
    \A k \in 1..Len(executed) :
        \A j \in 1..Len(executed[k].cmd) : executed[k].cmd[j] \notin StripChars

\* the plan names no server, an unregistered server, a service that the server
\* does not manage, or no step
ViolatesPreconditions(plan) ==
    \/ "server" \notin plan.present
    \/ plan.server \notin DOMAIN infra_config
    \/ /\ "service" \in plan.present /\ plan.service # ""
       /\ \A k \in 1..Len(infra_config[plan.server].services) :
             LowerName(infra_config[plan.server].services[k]) # LowerName(plan.service)
    \/ "resolution_steps" \notin plan.present
    \/ plan.resolution_steps = <<>>

\* C8: if the plan given to execute_remediation has no server, names a server
\* absent from the registry, names a service that the server does not manage,
\* or has an empty step list, the call returns status error, executes no
\* command and leaves the execution log unchanged.
C8_PreconditionFailureIsInert ==
    [][\A w \in DOMAIN ex :
          (/\ ex'[w].call # ex[w].call
           /\ ViolatesPreconditions(ex'[w].data))
              => /\ ex'[w].pc = "idle"
                 /\ returned'[w] # Nil
                 /\ returned'[w].status = "error"
                 /\ executed' = executed
                 /\ execution_log' = execution_log]_vars

\* after one completed remediation, a plan naming a service that its server
\* does not manage has been refused
C8_Witness ==
    /\ ex["t1"].data = PlanBadService
    /\ ex["t1"].pc = "idle"
    /\ returned["t1"] # Nil
    /\ returned["t1"].op = "execute_remediation"
    /\ returned["t1"].status = "error"
    /\ returned["t1"].error = "Service is not configured on server"
    /\ Len(execution_log) = 1
    /\ executed # <<>>

\* C9: in the record produced by execute_remediation, the overall successful
\* flag is false whenever the command of at least one step failed, whether or
\* not that step carries a rollback command; it is true only if every executed
\* step command succeeded.
C9_SuccessfulIffAllStepsSucceeded ==
    \A r \in 1..Len(execution_log) :
        execution_log[r].successful <=>
            \A j \in 1..Len(execution_log[r].results) :
                execution_log[r].results[j].result.success

\* the commands that call c has run, in order
CallEntries(c) == SelectSeq(executed, LAMBDA e : e.call = c)

\* the step that entry e ran a command of
StepOf(e) == e.plan.resolution_steps[e.step]

\* the result of the rollback that E holds for plan step n, Nil if it holds none
RollbackResultIn(E, n) ==
    IF \E k \in 1..Len(E) : E[k].kind = "rollback" /\ E[k].step = n
    THEN E[CHOOSE k \in 1..Len(E) : E[k].kind = "rollback" /\ E[k].step = n].result
    ELSE Nil

\* C10: in execute_remediation a step's rollback command is executed exactly
\* when that step's command failed and the step defines a rollback; it runs
\* once, directly after the failing step's command and before the next step's
\* command, and its result is stored in that step's result as rollback_result;
\* a rollback is never run for a step that succeeded.
C10_RollbackExactlyOnFailure ==
    \A w \in DOMAIN ex :
        LET E == CallEntries(ex[w].call)
            S == SelectSeq(E, LAMBDA e : e.kind = "step")
            R == ex[w].results
        IN ex[w].call > 0 =>
           \* a rollback directly follows the failed command of its own step
           /\ \A k \in 1..Len(E) :
                 E[k].kind = "rollback" =>
                     /\ k > 1
                     /\ E[k - 1].kind = "step"
                     /\ E[k - 1].step = E[k].step
                     /\ ~E[k - 1].result.success
                     /\ StepOf(E[k]).rollback # <<>>
                     /\ E[k].cmd = StepOf(E[k]).rollback
           \* a failed command of a step with a rollback is followed by it: the
           \* rollback has run next, or the call is about to run it
           /\ \A k \in 1..Len(E) :
                 (E[k].kind = "step" /\ ~E[k].result.success
                      /\ StepOf(E[k]).rollback # <<>>)
                     => \/ /\ k < Len(E)
                           /\ E[k + 1].kind = "rollback"
                           /\ E[k + 1].step = E[k].step
                        \/ /\ k = Len(E)
                           /\ ex[w].pc = "rollback"
                           /\ ex[w].i = E[k].step
           \* the step results hold the rollback results, and only those
           /\ Len(R) = Len(S) - (IF ex[w].pc = "rollback" THEN 1 ELSE 0)
           /\ \A j \in 1..Len(R) :
                 /\ R[j].command = S[j].cmd
                 /\ R[j].result = S[j].result
                 /\ R[j].rollback_result = RollbackResultIn(E, S[j].step)
           /\ (returned[w] # Nil /\ returned[w].status = "completed")
                 => /\ returned[w].execution.results = R
                    /\ \E r \in 1..Len(execution_log) :
                          execution_log[r] = returned[w].execution

\* a remediation has completed in which the first step failed, its rollback
\* ran, and the second step ran after the rollback
C10_Witness ==
    /\ ex["t1"].data = PlanRollback
    /\ returned["t1"] # Nil /\ returned["t1"].status = "completed"
    /\ LET E == CallEntries(ex["t1"].call)
       IN /\ Len(E) = 3
          /\ E[1].kind = "step" /\ ~E[1].result.success
          /\ E[2].kind = "rollback" /\ E[2].cmd = CmdUndo
          /\ E[3].kind = "step" /\ E[3].step = 2
    /\ ex["t1"].results[1].rollback_result # Nil
    /\ ex["t1"].results[2].rollback_result = Nil



\* the execute_remediation call of thread w passed the precondition checks and
\* has returned
RemediationReturned(w) ==
    /\ ex[w].call > 0
    /\ ex[w].pc = "idle"
    /\ PreconditionError(ex[w].data) = None
    /\ returned[w] # Nil
    /\ returned[w].op = "execute_remediation"

\* the commands of the steps of plan that have one, in plan order
StepCommands(plan) ==
    LET S == SelectSeq(plan.resolution_steps, LAMBDA st : st.validation # <<>>)
    IN [k \in 1..Len(S) |-> S[k].validation]

\* C11: once execute_remediation has passed its precondition checks, it
\* executes the command of every step that has one, exactly once each and in
\* plan order, whatever earlier steps or rollbacks did; the run reaches the end
\* of the step list and then appends its record.
C11_RunsEveryStepToTheEnd ==
    \A w \in DOMAIN ex :
        RemediationReturned(w) =>
            LET S == SelectSeq(CallEntries(ex[w].call), LAMBDA e : e.kind = "step")
            IN /\ [k \in 1..Len(S) |-> S[k].cmd] = StepCommands(ex[w].data)
               /\ returned[w].status = "completed"
               /\ execution_log # <<>>
               /\ execution_log[Len(execution_log)] = returned[w].execution

\* thread w completes an execute_remediation call in this step
Completes(w) ==
    /\ ex[w].pc # "idle"
    /\ ex'[w].pc = "idle"
    /\ returned'[w] # Nil
    /\ returned'[w].status = "completed"

\* C12: the execution log is append-only: a step changes it only by appending
\* one record at its end, it does so exactly when an execute_remediation call
\* that passed the preconditions completes, and the record is the one the call
\* returns; no step removes, reorders or changes a record of the log.
C12_ExecutionLogAppendOnly ==
    [][/\ (\E w \in DOMAIN ex : Completes(w)) <=> execution_log' # execution_log
       /\ execution_log' # execution_log =>
             /\ Len(execution_log') = Len(execution_log) + 1
             /\ SubSeq(execution_log', 1, Len(execution_log)) = execution_log
             /\ \E w \in DOMAIN ex :
                   /\ Completes(w)
                   /\ execution_log'[Len(execution_log')] = returned'[w].execution]_vars

\* two remediations have completed; their records differ and the log holds
\* them in the order of the calls, and get_execution_log has handed it out
C12_Witness ==
    /\ Len(execution_log) = 2
    /\ execution_log[1] # execution_log[2]
    /\ execution_log[1].results[1].command = CmdInject
    /\ execution_log[2].results[1].command = CmdCheck
    /\ returned["t1"] # Nil
    /\ returned["t1"].op = "get_execution_log"
    /\ returned["t1"].log = execution_log

\* C13: every execution record contains one step result for every step of the
\* executed plan, in plan order.
C13_OneResultPerStep ==
    \A w \in DOMAIN ex :
        (RemediationReturned(w) /\ returned[w].status = "completed") =>
            LET steps == ex[w].data.resolution_steps
                results == returned[w].execution.results
            IN /\ Len(results) = Len(steps)
               /\ \A j \in 1..Len(results) : results[j].step = steps[j].step

\* thread w makes a pass of handle_issue over a non-empty issue in this step
HandlesIssue(w) ==
    /\ calls' = calls + 1
    /\ returned'[w] # Nil
    /\ returned'[w].op = "handle_issue"
    /\ ~returned'[w].input.blank

\* C14: every pass of handle_issue over a non-empty issue appends its ticket
\* to the ticket log exactly once, whichever path the pass takes.
C14_TicketAppendedOnEveryPass ==
    [][\A w \in DOMAIN ex :
          HandlesIssue(w) =>
              /\ Len(ticket_log') = Len(ticket_log) + 1
              /\ SubSeq(ticket_log', 1, Len(ticket_log)) = ticket_log
              /\ ticket_log'[Len(ticket_log')].issue = returned'[w].input]_vars

\* the ticket log holds a ticket of plan with an approving verdict
ApprovedTicket(plan) ==
    \E t \in 1..Len(ticket_log) :
        /\ ticket_log[t].resolution = plan
        /\ ticket_log[t].validation # Nil
        /\ ticket_log[t].validation.approved

\* C15: when an approved plan is re-submitted through
\* SupportCrew.execute_remediation(ticket_id, execution_data), the stored
\* ticket is updated with the resulting execution record and status.
C15_ExecutionUpdatesTicket ==
    [][\A w \in DOMAIN ex :
          (Completes(w) /\ ApprovedTicket(ex[w].data))
              => ticket_log' # ticket_log]_vars

\* C16: no stage lets an exception escape: every request returns a result,
\* and the result of handle_issue carries a status that is one of success,
\* error, awaiting_approval.
C16_NoExceptionEscapes ==
    \A w \in DOMAIN returned :
        returned[w] # Nil =>
            /\ returned[w].status # "raised"
            /\ returned[w].op = "handle_issue" =>
                  returned[w].status \in {"success", "error", "awaiting_approval"}


(***************************************************************************)
(* Properties of sanitize_input, checked under SpecSanitize.               *)
(***************************************************************************)
\* C17: sanitize_input is idempotent: sanitize_input(sanitize_input(c))
\* equals sanitize_input(c) for every command string c.
C17_SanitizeIdempotent ==
    Len(san_hist) = 2 => san_hist[2] = san_hist[1]

\* a string with two characters of the class and a pipe has been sanitized
\* twice; the first application deleted both characters
C17_Witness ==
    /\ san_arg = <<";", "|", ";">>
    /\ Len(san_hist) = 2
    /\ san_hist[1] = <<"|">>

\* the characters the code deletes: ; backquote $ > <
DeletedFive == {";", "BQ", "$", ">", "<"}

\* the positions of s that hold a character outside D
KeptPositions(s, D) == {i \in 1..Len(s) : s[i] \notin D}

\* the position of s that holds the j-th character outside D
KthKept(s, D, j) ==
    CHOOSE i \in KeptPositions(s, D) :
        Cardinality({h \in KeptPositions(s, D) : h <= i}) = j

\* out is s with every occurrence of a character of D deleted and every
\* other character kept in its original order
DeletesExactly(s, D, out) ==
    /\ Len(out) = Cardinality(KeptPositions(s, D))
    /\ \A j \in 1..Len(out) : out[j] = s[KthKept(s, D, j)]

\* C18 (amended): for every command string, sanitize_input returns the input
\* with every occurrence of the five characters ; backquote $ > < deleted and
\* every other character, pipe, ampersand and backslash included, kept in its
\* original order; the output contains none of the five deleted characters.
C18_DeletesFiveKeepsRest ==
    Len(san_hist) >= 1 =>
        /\ DeletesExactly(san_arg, DeletedFive, san_hist[1])
        /\ \A j \in 1..Len(san_hist[1]) : san_hist[1][j] \notin DeletedFive

\* a string of a pipe, a semicolon and an ampersand has lost the semicolon only
C18_Witness ==
    /\ san_arg = <<"|", ";", "&">>
    /\ Len(san_hist) >= 1
    /\ san_hist[1] = <<"|", "&">>

\* C18 as stated, with six deleted characters: the five of the class and the
\* backslash that precedes the backquote in the list of the specification
C18_SixCharactersDeleted ==
    Len(san_hist) >= 1 =>
        \A j \in 1..Len(san_hist[1]) : san_hist[1][j] \notin DeletedFive \cup {"\\"}


(***************************************************************************)
(* Properties of the classifiers, checked under SpecClassify.              *)
(***************************************************************************)
\* the text contains one of the general-query keywords status and uptime
ContainsGeneralKeyword(text) == InSeq("status", text) \/ InSeq("uptime", text)

\* C19: for every issue text that contains a general-query keyword, when the
\* confidence of the language model is below 0.7, classify_issue returns
\* general_query, whatever category the model proposed and whatever other
\* words the text holds.
C19_KeywordOverridesUnsureModel ==
    (/\ cl_result # Nil
     /\ cl_result.by = "agents.classify_issue"
     /\ ContainsGeneralKeyword(cl_text)
     /\ cl_response.confidence < 7)
        => cl_result.value[1] = "general_query"

\* C20: when the response of the language model cannot be parsed, the
\* classification returns the category uncategorized, which handle_issue
\* recognises, with a parse-failure reason.
C20_UnparseableIsUncategorized ==
    (/\ cl_result # Nil
     /\ cl_result.by = "issue_classifier_agent.classify_issue"
     /\ ~cl_response.parses)
        => /\ cl_result.value[1] = "uncategorized"
           /\ IsUncategorized(cl_result.value[1])
           /\ cl_result.value[2] = "Could not classify due to response format error."

\* C22: the issue text "db01 is not responding" is classified needs_resolution,
\* the category that handle_issue routes to the resolver and the validator.
C22_ScenarioANeedsResolution ==
    (/\ cl_result # Nil
     /\ cl_result.by = "agents.classify_issue"
     /\ cl_text = TextScenarioA)
        => /\ cl_result.value[1] = "needs_resolution"
           /\ IssueOf(cl_text) \in ResolutionIssues


(***************************************************************************)
(* Properties of the tickets, checked under Spec.                          *)
(***************************************************************************)
\* C21: classify returns (category, reason, service), so that after
\* handle_issue unpacks it the classification_reason of the ticket holds the
\* reason text and the service field holds the extracted service name.
C21_TicketFieldsInOrder ==
    \A t \in 1..Len(ticket_log) :
        /\ classify_issue(ticket_log[t].issue)[2] = ticket_log[t].service
        /\ classify_issue(ticket_log[t].issue)[3] = ticket_log[t].classification_reason

(***************************************************************************)
(* Properties of the retry loop and of the remote branch of                *)
(* run_command_async, checked under SpecCmd and SpecCmdLive.               *)
(***************************************************************************)
\* C23: a local command that runs into its timeout ends the call at that
\* attempt with success=false and return_code=-1: no further attempt is begun
\* after the attempt that timed out.
C23_TimeoutEndsCall ==
    (rc.tried > 0 /\ rc.last = "timeout")
        => /\ rc.pc = "done"
           /\ rc_result # Nil
           /\ ~rc_result.success
           /\ rc_result.return_code = -1
           /\ rc.tried = rc.attempt + 1

\* a call whose second attempt timed out after a first attempt that raised
C23_Witness ==
    /\ rc.pc = "done"
    /\ rc.last = "timeout"
    /\ rc.attempt = 1
    /\ rc_result # Nil
    /\ rc_result.output = "Timeout"

\* C24: the local path of run_command_async begins at most 3 attempts and
\* always returns; the loop goes on to another attempt only after an attempt
\* in which starting or reading the subprocess raised; an attempt that
\* completed ends the call with success exactly when the exit code was 0; after
\* 3 attempts that raised the result is success=false, return_code=-1.
C24_LocalLoopBounded ==
    /\ [](rc.tried <= 3)
    /\ [][(rc.pc = "local" /\ rc'.pc = "local")
             => rc'.last \in {"spawn_error", "read_error"}]_vars
    /\ []((rc.pc = "done" /\ rc.tried > 0 /\ rc.last \in {"ok", "nonzero"})
             => /\ rc_result.success = (rc.last = "ok")
                /\ rc_result.return_code = (IF rc.last = "ok" THEN 0 ELSE 1))
    /\ []((rc.pc = "done" /\ rc.attempt = 3)
             => /\ ~rc_result.success
                /\ rc_result.return_code = -1)
    /\ <>(rc.pc = "done")

\* a call that returned after three attempts that raised
C24_Witness ==
    /\ rc.pc = "done"
    /\ rc.tried = 3
    /\ rc.attempt = 3
    /\ rc_result # Nil
    /\ rc_result.output = "Failed after retries"

\* C26: for a command sent to a registered server, a failed authentication, a
\* failed connection and a remote command that exits with a non-zero status
\* each give a result with success=false and an output that is not the
\* output of the command.
C26_RemoteFailuresReported ==
    (/\ rc.pc = "done"
     /\ rc.tried = 0
     /\ rc.last \in {"auth_failed", "ssh_error", "connect_error", "nonzero_quiet"})
        => /\ rc_result # Nil
           /\ ~rc_result.success
           /\ rc_result.return_code # 0

\* the command is a ping that names localhost or no host
PingWithoutTarget(cmd) ==
    /\ StartsWith(cmd, TokPing)
    /\ \/ Contains(cmd, StrLocalhost)
       \/ cmd \in {TokPing, TokPing \o TokCount}

\* C27: when run_command_async is given a registered server and a ping command
\* that names localhost or no host, the command sent to the server holds the
\* ip field of the server's registry entry and does not hold localhost.
C27_PingTargetsServerAddress ==
    \A k \in 1..Len(executed) :
        (executed[k].via = "ssh" /\ PingWithoutTarget(sanitize_input(rc.input)))
            => /\ Contains(executed[k].cmd, Spell(executed[k].host))
               /\ ~Contains(executed[k].cmd, StrLocalhost)

(***************************************************************************)
(* Properties of single calls, checked under SpecOps.                      *)
(***************************************************************************)
\* the command is no key of the canned table and begins with the first word
\* of no key
MatchesNoEntry(command) ==
    \A i \in DOMAIN SIMULATED_RESPONSES :
        /\ SIMULATED_RESPONSES[i].key # command
        /\ ~StartsWith(command, FirstWord(SIMULATED_RESPONSES[i].key))

\* the call opened no connection, a command that is a key got the pair of that
\* key, and a command that matches no entry got a generic successful result
SimulationAnswers ==
    /\ ~op_result.connected
    /\ \A i \in DOMAIN SIMULATED_RESPONSES :
          op.command = SIMULATED_RESPONSES[i].key
              => /\ op_result.success = SIMULATED_RESPONSES[i].success
                 /\ op_result.output = SIMULATED_RESPONSES[i].output
    /\ MatchesNoEntry(op.command)
          => /\ op_result.success
             /\ op_result.output \in {"Service is running", "Simulated output for"}

C28_PermissionFollowsRole ==
    (op.name = "has_permission" /\ op_result # Nil) =>
        LET users == op.RBAC.users
            roles == op.RBAC.roles
            role == IF op.user \notin DOMAIN users THEN "viewer"
                    ELSE IF "role" \in DOMAIN users[op.user] THEN users[op.user].role
                    ELSE "viewer"
            granted == IF role \in DOMAIN roles
                       THEN {roles[role].permissions[k] :
                                k \in 1..Len(roles[role].permissions)}
                       ELSE {}
        IN /\ op_result.value = (op.permission \in granted)
           /\ (/\ op.RBAC = DEFAULT_RBAC
               /\ op.user # "system"
               /\ op.permission \in {"execute_any_command", "approve_remediation"})
                  => ~op_result.value

\* under the default policy an unknown user asked for execute_any_command and
\* was denied it
C28_Witness ==
    /\ op.name = "has_permission"
    /\ op_result # Nil
    /\ op.RBAC = DEFAULT_RBAC
    /\ op.user = "mallory"
    /\ op.permission = "execute_any_command"
    /\ ~op_result.value

\* the server passes the server-name filter and the service filter of the
\* query
PassesFilters(server) ==
    /\ op.server_name = None \/ op.server_name = server
    /\ op.service = "" \/ InSeq(op.service, infra_config[server].services)

\* C30: in the fan-out of process_query every server of the registry that
\* passes the server-name and service filters has its own entry in results
\* once the loop has passed it, the entry stays, and the returned results hold
\* it, whatever the commands on the other servers returned.
C30_EveryPassingServerHasItsEntry ==
    (op.name = "process_query") =>
        /\ \A k \in 1..Len(ServerOrder) :
              (k <= op.i /\ PassesFilters(ServerOrder[k]))
                  => /\ ServerOrder[k] \in DOMAIN op.results
                     /\ op.results[ServerOrder[k]].ip = infra_config[ServerOrder[k]].ip
                     /\ Len(op.results[ServerOrder[k]].commands) = 1
        /\ op_result # Nil =>
              \A k \in 1..Len(ServerOrder) :
                  PassesFilters(ServerOrder[k])
                      => /\ op_result.status = "success"
                         /\ ServerOrder[k] \in DOMAIN op_result.results
                         /\ op_result.results[ServerOrder[k]] = op.results[ServerOrder[k]]

\* a query over both servers returned both entries although the command on
\* the first server failed
C30_Witness ==
    /\ op.name = "process_query"
    /\ op_result # Nil
    /\ op_result.status = "success"
    /\ DOMAIN op_result.results = {"web01", "db01"}
    /\ ~op_result.results["web01"].commands[1].success
    /\ op_result.results["db01"].commands[1].success

(***************************************************************************)
(* Properties of concurrent requests, checked under SpecConcurrent.        *)
(***************************************************************************)
\* C29: when execution approvals arrive concurrently at the shared
\* SupportCrew, at most one execute_remediation run is in flight at a time,
\* and the step and rollback commands of two runs never interleave: between
\* two commands of one run no command of another run is executed.
C29_OneRemediationInFlight ==
    /\ \A w1, w2 \in DOMAIN ex :
          (ex[w1].pc # "idle" /\ ex[w2].pc # "idle") => w1 = w2
    /\ \A i, j, k \in 1..Len(executed) :
          (i < j /\ j < k /\ executed[i].call = executed[k].call)
              => executed[j].call = executed[i].call

(***************************************************************************)
(* Properties of the path that remediation commands take, checked under    *)
(* Spec and SpecCmd.                                                       *)
(***************************************************************************)
\* C31: the step and rollback commands of a remediation plan that targets a
\* registered server are executed on that server over SSH, never as a
\* subprocess on the host that runs the agent.
C31_PlanCommandsRunOnTheServer ==
    \A k \in 1..Len(executed) :
        (/\ executed[k].kind \in {"step", "rollback"}
         /\ executed[k].plan.server \in DOMAIN infra_config)
            => /\ executed[k].via = "ssh"
               /\ executed[k].via \notin {"subprocess.run", "create_subprocess_shell"}

(***************************************************************************)
(* Properties of the confidence of validate_resolution, checked under      *)
(* SpecValidator.                                                          *)
(***************************************************************************)
\* the flagged issues of one step: a missing purpose, a missing validation
\* command, a risky action without rollback
IssuesOfStep(step) ==
    (IF step.purpose = "" THEN 1 ELSE 0)
    + (IF step.validation = <<>> THEN 1 ELSE 0)
    + (IF RiskyWithoutRollback(step) THEN 1 ELSE 0)

RECURSIVE FlaggedIssues(_)
FlaggedIssues(steps) ==
    IF steps = <<>> THEN 0 ELSE IssuesOfStep(Head(steps)) + FlaggedIssues(Tail(steps))

\* C32: for a plan that passes the structural checks, the confidence in tenths
\* is 10, minus 2 if the severity is not high, medium or low, minus 1 for every
\* flagged issue of the steps, minus 1 if the risk list is empty, minus 1 if
\* the prerequisite list is empty, clamped to 0..10.
C32_ConfidenceFormula ==
    (Validated /\ PassesStructural(resolution_in)) =>
        LET raw == 10
                   - (IF resolution_in.severity \in {"high", "medium", "low"} THEN 0 ELSE 2)
                   - FlaggedIssues(resolution_in.resolution_steps)
                   - (IF resolution_in.risks = <<>> THEN 1 ELSE 0)
                   - (IF resolution_in.prerequisites = <<>> THEN 1 ELSE 0)
        IN verdict.confidence = (IF raw < 0 THEN 0 ELSE IF raw > 10 THEN 10 ELSE raw)

\* C33: in simulation mode a command that is no key of the canned table gets
\* the canned response of an entry only when the command of that entry is a
\* prefix of the issued command, and gets the generic simulated output
\* otherwise.
C33_CannedOnlyForKeyPrefix ==
    (/\ op.name = "run_ssh_command"
     /\ op_result # Nil
     /\ op.simulation
     /\ op.host # ""
     /\ op.command # <<>>
     /\ \A i \in DOMAIN SIMULATED_RESPONSES : SIMULATED_RESPONSES[i].key # op.command)
        => /\ \A i \in DOMAIN SIMULATED_RESPONSES :
                 op_result.output = SIMULATED_RESPONSES[i].output
                     => StartsWith(op.command, SIMULATED_RESPONSES[i].key)
           /\ (\A i \in DOMAIN SIMULATED_RESPONSES :
                  ~StartsWith(op.command, SIMULATED_RESPONSES[i].key))
                 => op_result.output \in {"Service is running", "Simulated output for"}

\* C34: when run_command_async is called with a server name, the command is
\* run on that server over SSH or the call returns a failure; the command
\* is run as a subprocess on the local host only when no server is given.
C34_LocalOnlyWithoutServer ==
    /\ \A k \in 1..Len(executed) :
          executed[k].via = "create_subprocess_shell" => rc.server = None
    /\ (rc.server # None /\ rc_result # Nil /\ rc_result.success)
          => \E k \in 1..Len(executed) : executed[k].via = "ssh"

\* C35: when execute_remediation returns status error, no step or rollback
\* command of that call was executed.
C35_ErrorMeansNothingRan ==
    \A w \in DOMAIN returned :
        (/\ returned[w] # Nil
         /\ returned[w].op = "execute_remediation"
         /\ returned[w].status = "error")
            => \A k \in 1..Len(executed) : executed[k].call # ex[w].call

(***************************************************************************)
(* Properties that relate the validator to the executor, checked under     *)
(* SpecValidator.                                                          *)
(***************************************************************************)
\* C36: every plan that validate_resolution approves passes the precondition
\* checks of execute_remediation against the same registry: the server name
\* is present and registered, the service is one of the server's services,
\* and the step list is not empty.
C36_ApprovedPassesPreconditions ==
    (Validated /\ verdict.approved)
        => /\ PreconditionError(resolution_in) = None
           /\ resolution_in.server \in DOMAIN infra_config
           /\ resolution_in.resolution_steps # <<>>

\* an approved plan for the service of db01
C36_Witness ==
    /\ Validated
    /\ verdict.approved
    /\ resolution_in.server = "db01"
    /\ resolution_in.service = "mysql"
    /\ PreconditionError(resolution_in) = None

\* the plan with a rollback command given to its step k, all else unchanged
WithRollback(plan, k) ==
    [plan EXCEPT !.resolution_steps[k].rollback = CmdUndo]

\* the steps of the plan that are step objects without a rollback command
StepsWithoutRollback(plan) ==
    {k \in 1..Len(plan.resolution_steps) :
        /\ plan.resolution_steps[k].isdict
        /\ plan.resolution_steps[k].rollback = <<>>}

\* C37: validate_resolution is monotone in rollback coverage: for every plan
\* and every step of it without rollback, the verdict of the plan with a
\* rollback command given to that step has a confidence that is not lower, has
\* no entry in risks_identified that the verdict of the plan lacks, and is
\* approved whenever the plan is approved.
C37_RollbackMonotone ==
    (Validated /\ "resolution_steps" \in resolution_in.present) =>
        \A k \in StepsWithoutRollback(resolution_in) :
            LET better == validate_resolution(WithRollback(resolution_in, k)) IN
            /\ better.confidence >= verdict.confidence
            /\ \A r \in 1..Len(better.risks_identified) :
                  \E q \in 1..Len(verdict.risks_identified) :
                      verdict.risks_identified[q] = better.risks_identified[r]
            /\ verdict.approved => better.approved

\* a plan rejected for a risky step without rollback whose verdict turns to
\* approved, with a higher confidence, once the step has a rollback command
C37_Witness ==
    /\ Validated
    /\ "resolution_steps" \in resolution_in.present
    /\ ~verdict.approved
    /\ verdict.risks_identified # <<>>
    /\ \E k \in StepsWithoutRollback(resolution_in) :
          /\ validate_resolution(WithRollback(resolution_in, k)).approved
          /\ validate_resolution(WithRollback(resolution_in, k)).confidence
                > verdict.confidence

=========================================================================
